---- MODULE Spec2Model ----
(***************************************************************************)
(* A model of swugenerator's package build: SWUGenerator.process() of      *)
(* generator.py driving Artifact of artifact.py.                           *)
(*                                                                         *)
(* Text is a sequence of one-character strings; "NL" stands for the line   *)
(* terminator.  File names and paths are sequences of components:          *)
(* <<"a">>, <<"a", "zlib", "enc">> (a.zlib.enc), <<"tmp", "a", "enc">>     *)
(* (the file a.enc in the temporary directory).  The empty sequence is     *)
(* Python's None, and stands for an attribute that was never assigned      *)
(* where the code reads one (Artifact has no fullfilename and no ivt       *)
(* until generator.py assigns them).                                       *)
(***************************************************************************)
EXTENDS Integers, Sequences, FiniteSets, TLC

\* ---------------------------------------------------------------- bounds
MaxSegs == 3        \* pieces a template line is built from
MaxEntries == 2     \* manifest entries handed to process_entry in one build

\* ------------------------------------------------------- sequence helpers
Last(s) == s[Len(s)]

Front(s) == SubSeq(s, 1, Len(s) - 1)

RECURSIVE Flatten(_)
Flatten(ss) == IF ss = <<>> THEN <<>> ELSE Head(ss) \o Flatten(Tail(ss))

\* ------------------------------------------------------------- the text
NoneValue == <<>>

\* \w of Python's re: letters, digits, underscore
WordChars == {"X", "Y", "h", "S", "U", "Z", "a", "c", "d", "0"}

IsWord(c) == c \in WordChars

\* "." of Python's re: any character but the line terminator
IsDot(c) == c # "NL"

AllDot(s) == \A i \in 1..Len(s) : IsDot(s[i])

AllWord(s) == \A i \in 1..Len(s) : IsWord(s[i])

\* "$" of re.match: the end of the string, or just before a final terminator
Body(line) ==
    IF line # <<>> /\ Last(line) = "NL" THEN Front(line) ELSE line

\* confvars: the variables section of the configuration file
ConfVars == [n \in {<<"X">>} |-> <<"h">>]

\* The places a variable match can start: before = body[1..i], "@@" at
\* i+1..i+2, the name i+3..j, "@@" at j+1..j+2, after = body[j+3..]
VarMatches(line) ==
    LET b == Body(line)
    IN  { <<i, j>> \in (1..Len(b)) \X (1..Len(b)) :
            /\ i + 3 <= j
            /\ j + 3 <= Len(b)
            /\ AllDot(SubSeq(b, 1, i))
            /\ b[i + 1] = "@" /\ b[i + 2] = "@"
            /\ AllWord(SubSeq(b, i + 3, j))
            /\ b[j + 1] = "@" /\ b[j + 2] = "@"
            /\ AllDot(SubSeq(b, j + 3, Len(b))) }

\* re.match is greedy: the longest before_placeholder wins
VarMatch(line) ==
    CHOOSE m \in VarMatches(line) : \A o \in VarMatches(line) : o[1] <= m[1]

VariableName(line) == SubSeq(Body(line), VarMatch(line)[1] + 3, VarMatch(line)[2])

\* one round of the while loop of _expand_variables on a matching line
SubstituteVar(line) ==
    LET b == Body(line)
        m == VarMatch(line)
    IN  SubSeq(b, 1, m[1]) \o ConfVars[VariableName(line)]
            \o SubSeq(b, m[2] + 3, Len(b))

\* the while loop of _expand_variables on one line: the line it leaves, or
\* KeyError when a matched name is not in self.vars
RECURSIVE ExpandLine(_)
ExpandLine(line) ==
    IF VarMatches(line) = {}
    THEN [raised |-> "", line |-> line]
    ELSE IF VariableName(line) \notin DOMAIN ConfVars
         THEN [raised |-> "KeyError", line |-> line]
         ELSE ExpandLine(SubstituteVar(line))

\* the for loop of _expand_variables
RECURSIVE ExpandLines(_)
ExpandLines(ls) ==
    IF ls = <<>>
    THEN [raised |-> "", lines |-> <<>>]
    ELSE LET h == ExpandLine(Head(ls))
         IN  IF h.raised # ""
             THEN [raised |-> h.raised, lines |-> <<>>]
             ELSE LET t == ExpandLines(Tail(ls))
                  IN  [raised |-> t.raised,
                       lines |-> IF t.raised # "" THEN <<>> ELSE <<h.line>> \o t.lines]

\* ------------------------------------------------------ the file system
\* self.artifactory: the current directory, then the operator's directories
Artifactory == <<"cwd", "dep">>

TempDir == "tmp"

\* the bytes of a file are named by where they come from, followed by the
\* transformations applied to them
SourceFiles ==
    [p \in {<<"cwd", "a">>, <<"dep", "a">>, <<"dep", "b">>} |-> p]

SwDescriptionFile ==
    [p \in {<<"cwd", "sw-description">>} |-> p]

WriteFile(fs, path, data) ==
    [p \in DOMAIN fs \cup {path} |-> IF p = path THEN data ELSE fs[p]]

\* hashlib.sha256 of the bytes, as a hex string
Sha256(data) == <<"sha256">> \o data

\* ---------------------------------------------------------------- state
VARIABLES
    pc,             \* where process() of the build stands
    swdescription,  \* the lines of the template file self.swdescription names
    lines,          \* self.lines
    files,          \* the file system: path -> bytes
    artifacts,      \* self.artifacts
    filelist,       \* self.filelist, the entries handed to process_entry so far
    entry,          \* the entry process_entry was last called with, as handed
    new,            \* the artifact (local "new") that call worked on
    cpio,           \* what self.cpiofile has been given, in order
    calls,          \* the external compressors and ciphers run, in order
    aeskey, aesiv,  \* self.aeskey, self.aesiv
    encryptswdesc, nocompress, noencrypt, noivt,
    signtool,       \* whether self.signtool is set
    exitcode,       \* the process's exit status, -1 while it runs
    raised,         \* the exception that ended the process, if one did
    tempexists,     \* self.temp exists on disk
    outopen         \* self.out is open

vars == <<pc, swdescription, lines, files, artifacts, filelist, entry, new, cpio,
          calls, aeskey, aesiv, encryptswdesc, nocompress, noencrypt, noivt,
          signtool, exitcode, raised, tempexists, outopen>>

config == <<aeskey, aesiv, encryptswdesc, nocompress, noencrypt, noivt, signtool>>

\* ------------------------------------------------------------ Artifact
\* Artifact._get_artifact_source_path: the first directory that has the file
RECURSIVE FirstPath(_, _, _)
FirstPath(fs, dirs, filename) ==
    IF dirs = <<>> THEN NoneValue
    ELSE IF (<<Head(dirs)>> \o filename) \in DOMAIN fs
         THEN <<Head(dirs)>> \o filename
         ELSE FirstPath(fs, Tail(dirs), filename)

GetArtifactSourcePath(fs, filename) == FirstPath(fs, Artifactory, filename)

\* Artifact.__init__; fullfilename and ivt are not attributes yet
NewArtifact(fs, filename) ==
    [filename |-> filename,
     source_path |-> GetArtifactSourcePath(fs, filename),
     archived_filename |-> filename,
     fullfilename |-> NoneValue,
     ivt |-> "unset"]

\* Artifact.exists
Exists(fs, art) == art.source_path # NoneValue /\ art.source_path \in DOMAIN fs

\* Artifact.get_sha256: the hash of the file at source_path, or None
GetSha256(fs, art) ==
    IF ~Exists(fs, art) THEN NoneValue ELSE Sha256(fs[art.source_path])

\* Artifact.get_size, as str() prints it
GetSizeStr(fs, art) == IF Exists(fs, art) THEN <<"d">> ELSE <<"0">>

\* --------------------------------------------------- _exec_functions
\* before = body[1..i], "$" at i+1, the name i+2..j, "(" at j+1,
\* parms = body[j+2..k], ")" at k+1, after = body[k+2..]
FunMatches(line) ==
    LET b == Body(line)
        N == 1..Len(b)
    IN  { <<i, j, k>> \in N \X N \X N :
            /\ i + 2 <= j
            /\ j + 2 <= k
            /\ k + 2 <= Len(b)
            /\ AllDot(SubSeq(b, 1, i))
            /\ b[i + 1] = "$"
            /\ AllWord(SubSeq(b, i + 2, j))
            /\ b[j + 1] = "("
            /\ AllDot(SubSeq(b, j + 2, k))
            /\ b[k + 1] = ")"
            /\ AllDot(SubSeq(b, k + 2, Len(b))) }

\* greedy: the longest before_placeholder, then the longest parms
FunMatch(line) ==
    CHOOSE m \in FunMatches(line) :
        \A o \in FunMatches(line) :
            o[1] < m[1] \/ (o[1] = m[1] /\ o[3] <= m[3])

\* eval("self." + function_name + '("' + parms + '")'): the methods a
\* template names are swupdate_get_sha256 (written S here) and
\* swupdate_get_size (written Z); any other name is no attribute of self
CallFunction(fs, name, parms) ==
    IF name = <<"S">>
    THEN [raised |-> "", ret |-> GetSha256(fs, NewArtifact(fs, parms))]
    ELSE IF name = <<"Z">>
         THEN [raised |-> "", ret |-> GetSizeStr(fs, NewArtifact(fs, parms))]
         ELSE [raised |-> "AttributeError", ret |-> NoneValue]

\* the body of the for loop of _exec_functions; str + None is a TypeError
ExecLine(fs, line) ==
    IF FunMatches(line) = {}
    THEN [raised |-> "", line |-> line]
    ELSE LET b == Body(line)
             m == FunMatch(line)
             r == CallFunction(fs, SubSeq(b, m[1] + 2, m[2]),
                               SubSeq(b, m[2] + 2, m[3]))
         IN  IF r.raised # ""
             THEN [raised |-> r.raised, line |-> line]
             ELSE IF r.ret = NoneValue
                  THEN [raised |-> "TypeError", line |-> line]
                  ELSE [raised |-> "",
                        line |-> SubSeq(b, 1, m[1]) \o r.ret
                                   \o SubSeq(b, m[3] + 2, Len(b)) \o <<"NL">>]

\* self.lines[index] = line as the loop goes: the lines before a raise are
\* already replaced
RECURSIVE ExecLines(_, _)
ExecLines(fs, ls) ==
    IF ls = <<>>
    THEN [raised |-> "", lines |-> <<>>]
    ELSE LET h == ExecLine(fs, Head(ls))
         IN  IF h.raised # ""
             THEN [raised |-> h.raised, lines |-> ls]
             ELSE LET t == ExecLines(fs, Tail(ls))
                  IN  [raised |-> t.raised, lines |-> <<h.line>> \o t.lines]

\* ------------------------------------------------------------ templates
Segments ==
    { <<"=">>, <<"X">>,
      <<"@", "@", "X", "@", "@">>, <<"@", "@", "Y", "@", "@">>,
      <<"$", "S", "(", "a", ")">>, <<"$", "U", "(", "a", ")">> }

SegSeqs == UNION { [1..n -> Segments] : n \in 1..MaxSegs }

\* the ways to cut 1..n into consecutive lines: the set of the positions a
\* line ends at (n among them)
Cuts(n) == { c \in SUBSET (1..n) : n \in c }

LineOf(ss, c, e) ==
    LET prev == { x \in c : x < e }
        start == IF prev = {} THEN 1
                 ELSE (CHOOSE x \in prev : \A y \in prev : y <= x) + 1
    IN  Flatten(SubSeq(ss, start, e))

RECURSIVE SortedSeq(_)
SortedSeq(S) ==
    IF S = {} THEN <<>>
    ELSE LET m == CHOOSE x \in S : \A y \in S : x <= y
         IN  <<m>> \o SortedSeq(S \ {m})

\* what readlines() gives: every line but possibly the last ends in "NL"
TemplateOf(ss, c, finalNL) ==
    LET ends == SortedSeq(c)
    IN  [k \in 1..Len(ends) |->
            LineOf(ss, c, ends[k])
              \o (IF k < Len(ends) \/ finalNL THEN <<"NL">> ELSE <<>>)]

Templates ==
    UNION { { TemplateOf(ss, c, nl) : c \in Cuts(Len(ss)), nl \in BOOLEAN } :
            ss \in SegSeqs }

\* the templates of the builds whose later stages are explored
BuildTemplates ==
    { << <<"=", "@", "@", "X", "@", "@", "=", "NL">>,
         <<"=", "$", "S", "(", "a", ")", "=", "NL">> >>,
      << <<"=", "@", "@", "Y", "@", "@", "=", "NL">> >>,
      << <<"=", "$", "U", "(", "a", ")", "=", "NL">> >> }

\* ----------------------------------------------------------------- Init
\* what the key file can give: no key (None), an empty value ("key=" with
\* nothing after it), a key the cipher takes, one it rejects
Keys == {"None", "", "key", "badkey"}

IVs == {"None", "iv"}

\* secrets.token_hex(16) of generate_iv
GeneratedIVs == {"gen1", "gen2"}

NoEntry == [filename |-> NoneValue, compressed |-> "absent", encrypted |-> FALSE]

\* SWUGenerator.__init__, with the template and the files it will find
InitWith(tpls, keys, ivs, flags) ==
    /\ pc = "start"
    /\ swdescription \in tpls
    /\ lines = <<>>
    /\ files \in {SourceFiles, SourceFiles @@ SwDescriptionFile}
    /\ artifacts = <<>>
    /\ filelist = <<>>
    /\ entry = NoEntry
    /\ new = NewArtifact(<<>>, NoneValue)
    /\ cpio = <<>>
    /\ calls = <<>>
    /\ aeskey \in keys
    /\ aesiv \in ivs
    /\ encryptswdesc \in flags
    /\ nocompress \in flags
    /\ noencrypt \in flags
    /\ noivt \in flags
    /\ signtool \in flags
    /\ exitcode = -1
    /\ raised = ""
    /\ tempexists = TRUE
    /\ outopen = TRUE

Init == InitWith(BuildTemplates, Keys, IVs, BOOLEAN)

InitExpand == InitWith(Templates, {"None"}, {"None"}, {FALSE})

\* -------------------------------------------------------------- actions
\* sys.exit(1), and the status of a process an exception ended
GenericFailureStatus == 1

\* sys.exit(22) of "Artifact not found"
ArtifactNotFoundStatus == 22

\* sys.exit(code)
Exit(code) ==
    /\ pc' = "aborted"
    /\ exitcode' = code
    /\ raised' = "SystemExit"

\* an exception nothing catches: the traceback, and exit status 1
Raise(exc) ==
    /\ pc' = "aborted"
    /\ exitcode' = GenericFailureStatus
    /\ raised' = exc

\* _read_swdesc
ReadSwdesc ==
    /\ pc = "start"
    /\ lines' = swdescription
    /\ pc' = "read"
    /\ UNCHANGED <<swdescription, files, artifacts, filelist, entry, new, cpio,
                   calls, config, exitcode, raised, tempexists, outopen>>

\* _expand_variables
ExpandVariables ==
    /\ pc = "read"
    /\ LET r == ExpandLines(lines)
       IN  IF r.raised # ""
           THEN Raise(r.raised) /\ UNCHANGED lines
           ELSE /\ lines' = r.lines
                /\ pc' = "expanded"
                /\ UNCHANGED <<exitcode, raised>>
    /\ UNCHANGED <<swdescription, files, artifacts, filelist, entry, new, cpio,
                   calls, config, tempexists, outopen>>

\* _exec_functions
ExecFunctions ==
    /\ pc = "expanded"
    /\ LET r == ExecLines(files, lines)
       IN  /\ lines' = r.lines
           /\ IF r.raised # ""
              THEN Raise(r.raised)
              ELSE pc' = "functions" /\ UNCHANGED <<exitcode, raised>>
    /\ UNCHANGED <<swdescription, files, artifacts, filelist, entry, new, cpio,
                   calls, config, tempexists, outopen>>

\* the manifest's own artifacts, registered before the entries are processed
SwDescription == <<"sw-description">>

SwDescriptionSig == <<"sw-description.sig">>

\* libconf.loads and find_files_in_swdesc, then the registration of
\* sw-description and, with a sign tool, of sw-description.sig
ParseSwdesc ==
    /\ pc = "functions"
    /\ LET sw == [NewArtifact(files, SwDescription) EXCEPT
                    !.archived_filename = <<TempDir>> \o SwDescription]
           sig == [NewArtifact(files, SwDescriptionSig) EXCEPT
                    !.archived_filename = <<TempDir>> \o SwDescriptionSig]
       IN  artifacts' = IF signtool THEN <<sw, sig>> ELSE <<sw>>
    /\ pc' = "entries"
    /\ UNCHANGED <<swdescription, lines, files, filelist, entry, new, cpio, calls,
                   config, exitcode, raised, tempexists, outopen>>

\* ---------------------------------------------------------- process_entry
Names == {<<"a">>, <<"b">>, <<"c">>, SwDescription}

\* the values of an entry's "compressed" key; "absent": the entry has none
CompressedValues == {"absent", "true", "false", "zlib", "zstd", "xz"}

\* find_files_in_swdesc lists only nodes that have a "filename" key, so
\* the early return of process_entry (lines 68-69) is never taken
Entries ==
    [filename : Names, compressed : CompressedValues, encrypted : BOOLEAN]

\* Python's truth value of the "compressed" value
Truthy(v) == v \notin {"false", ""}

\* the registry searched by the name in the archive instead of the original
FindArtifactByArchivedName(arts, filename) ==
    LET hits == { k \in 1..Len(arts) : arts[k].archived_filename = filename }
    IN  IF hits = {} THEN 0 ELSE CHOOSE k \in hits : \A o \in hits : k <= o

\* the loop over self.artifacts: the index of the first artifact of that
\* name, 0 when there is none
FindArtifact(arts, filename) ==
    LET hits == { k \in 1..Len(arts) : arts[k].filename = filename }
    IN  IF hits = {} THEN 0 ELSE CHOOSE k \in hits : \A o \in hits : k <= o

\* the bytes the external tools write
Compressed(cmp, data) == data \o <<cmp>>

Encrypted(data, key, iv) == data \o <<"aes", key, iv>>

\* openssl enc -aes-256-cbc -K key -iv iv -nosalt: its exit status.  A hex
\* string that is too short, the empty one too, is padded with zeros
CipherStatus(fs, source, key, iv) ==
    IF source \in DOMAIN fs /\ key \in {"key", ""}
          /\ iv \in {"iv", ""} \cup GeneratedIVs
    THEN 0 ELSE 1

\* Artifact.encrypt.  subprocess.run raises TypeError on an argument that
\* is None; only CalledProcessError is caught
Encrypt(fs, cl, art, out, key, iv) ==
    IF art.source_path = NoneValue
    THEN [raised |-> "", ret |-> FALSE, files |-> fs, calls |-> cl]
    ELSE IF key = "None" \/ iv = "None"
         THEN [raised |-> "TypeError", ret |-> FALSE, files |-> fs, calls |-> cl]
         ELSE LET call == [tool |-> "openssl", input |-> art.source_path,
                           output |-> out, key |-> key, iv |-> iv]
              IN  IF CipherStatus(fs, art.source_path, key, iv) # 0
                  THEN [raised |-> "", ret |-> FALSE, files |-> fs,
                        calls |-> Append(cl, call)]
                  ELSE [raised |-> "", ret |-> TRUE,
                        files |-> WriteFile(fs, out,
                                    Encrypted(fs[art.source_path], key, iv)),
                        calls |-> Append(cl, call)]

\* the algorithm process_entry picks for a "compressed" value
CompressionAlgorithm(v) == IF Truthy(v) THEN "zlib" ELSE v

\* process_entry, lines 84-128: the compression of a new artifact
CompressStep(fs, cl, art, e) ==
    IF e.compressed = "absent" \/ nocompress
    THEN [out |-> "ok", exc |-> "", new |-> art, files |-> fs, calls |-> cl]
    ELSE LET cmp == CompressionAlgorithm(e.compressed)
             new_path == <<TempDir>> \o art.archived_filename \o <<cmp>>
             renamed == [art EXCEPT !.archived_filename = @ \o <<cmp>>]
             call == [tool |-> IF cmp = "zlib" THEN "gzip" ELSE "zstd",
                      input |-> art.fullfilename, output |-> new_path,
                      key |-> "", iv |-> ""]
         IN  IF cmp \notin {"zlib", "zstd"}
             THEN [out |-> "exit", exc |-> "", new |-> art, files |-> fs,
                   calls |-> cl]
             ELSE IF art.fullfilename = NoneValue
                  THEN \* the command reads art.fullfilename, which nothing
                       \* has assigned
                       [out |-> "raise", exc |-> "AttributeError",
                        new |-> renamed, files |-> fs, calls |-> cl]
                  ELSE IF art.fullfilename \notin DOMAIN fs
                       THEN [out |-> "exit", exc |-> "", new |-> renamed,
                             files |-> fs, calls |-> Append(cl, call)]
                       ELSE [out |-> "ok", exc |-> "",
                             new |-> [renamed EXCEPT !.fullfilename = new_path],
                             files |-> WriteFile(fs, new_path,
                                         Compressed(cmp, fs[art.fullfilename])),
                             calls |-> Append(cl, call)]

\* every artifact given a generated IV, whatever --no-ivt says
ChooseGeneratedIV(giv) == giv

\* process_entry, lines 137-140: the run's IV with --no-ivt, else a new one
ChooseIV(giv) == IF noivt THEN aesiv ELSE giv

\* process_entry, lines 131-149: the encryption of a new artifact; giv is
\* what generate_iv would return
EncryptStep(fs, cl, art, e, giv) ==
    IF ~e.encrypted \/ noencrypt
    THEN [out |-> "ok", exc |-> "", new |-> art, files |-> fs, calls |-> cl]
    ELSE LET iv == ChooseIV(giv)
             renamed == [art EXCEPT !.archived_filename = @ \o <<"enc">>]
             new_path == <<TempDir>> \o renamed.archived_filename
             r == Encrypt(fs, cl, renamed, new_path, aeskey, iv)
         IN  IF r.raised # ""
             THEN [out |-> "raise", exc |-> r.raised, new |-> renamed,
                   files |-> fs, calls |-> cl]
             ELSE IF ~r.ret
                  THEN [out |-> "exit", exc |-> "", new |-> renamed,
                        files |-> r.files, calls |-> r.calls]
                  ELSE [out |-> "ok", exc |-> "",
                        new |-> [renamed EXCEPT !.fullfilename = new_path,
                                                !.ivt = iv],
                        files |-> r.files, calls |-> r.calls]

\* an entry of the manifest as process_entry leaves it; orig keeps the
\* filename it was handed with, hit says the artifact was already
\* registered, done says process_entry returned.  Its "compressed" key is
\* read by that one call only, and is kept in the variable entry
Processed(e, fs, art, hit, done) ==
    [orig |-> e.filename, hit |-> hit,
     encrypted |-> e.encrypted,
     filename |-> art.archived_filename,
     sha256 |-> GetSha256(fs, art),
     ivt |-> IF e.encrypted THEN art.ivt ELSE "absent",
     done |-> done]

\* process_entry, lines 155-158; entry["ivt"] = new.ivt reads an attribute
\* that only an encryption has assigned
RewriteEntry(e, fs, art, hit) ==
    IF e.encrypted /\ art.ivt = "unset"
    THEN [out |-> "raise", exc |-> "AttributeError",
          entry |-> [Processed(e, fs, art, hit, FALSE) EXCEPT !.ivt = "absent"]]
    ELSE [out |-> "ok", exc |-> "", entry |-> Processed(e, fs, art, hit, TRUE)]

\* the entry as handed, when process_entry ends before it rewrites it
Untouched(e) ==
    [orig |-> e.filename, hit |-> FALSE,
     encrypted |-> e.encrypted, filename |-> e.filename,
     sha256 |-> NoneValue, ivt |-> "absent", done |-> FALSE]

\* process_entry(entry) as a whole
ProcessEntryResult(fs, cl, arts, e, giv) ==
    LET found == FindArtifact(arts, e.filename)
    IN  IF found # 0
        THEN LET w == RewriteEntry(e, fs, arts[found], TRUE)
             IN  [out |-> w.out, code |-> GenericFailureStatus, exc |-> w.exc, entry |-> w.entry,
                  new |-> arts[found],
                  artifacts |-> arts, files |-> fs, calls |-> cl]
        ELSE LET fresh == NewArtifact(fs, e.filename)
             IN  IF ~Exists(fs, fresh)
                 THEN [out |-> "exit", code |-> ArtifactNotFoundStatus, exc |-> "",
                       entry |-> Untouched(e), new |-> fresh,
                       artifacts |-> arts, files |-> fs, calls |-> cl]
                 ELSE LET c == CompressStep(fs, cl, fresh, e)
                      IN  IF c.out # "ok"
                          THEN [out |-> c.out, code |-> GenericFailureStatus, exc |-> c.exc,
                                entry |-> Untouched(e), new |-> c.new,
                                artifacts |-> arts,
                                files |-> c.files, calls |-> c.calls]
                          ELSE LET x == EncryptStep(c.files, c.calls, c.new, e, giv)
                               IN  IF x.out # "ok"
                                   THEN [out |-> x.out, code |-> GenericFailureStatus, exc |-> x.exc,
                                         entry |-> Untouched(e), new |-> x.new,
                                         artifacts |-> arts,
                                         files |-> x.files, calls |-> x.calls]
                                   ELSE LET w == RewriteEntry(e, x.files, x.new, FALSE)
                                        IN  [out |-> w.out, code |-> GenericFailureStatus,
                                             exc |-> w.exc, entry |-> w.entry,
                                             new |-> x.new,
                                             artifacts |-> Append(arts, x.new),
                                             files |-> x.files, calls |-> x.calls]

\* one turn of "for entry in self.filelist: self.process_entry(entry)"
ProcessEntry ==
    /\ pc = "entries"
    /\ Len(filelist) < MaxEntries
    /\ \E e \in Entries, giv \in GeneratedIVs :
         \* generate_iv is called for a new artifact that is encrypted
         \* when the --no-ivt flag is not given
         /\ (noivt \/ noencrypt \/ ~e.encrypted
               \/ FindArtifact(artifacts, e.filename) # 0) => giv = "gen1"
         /\ LET r == ProcessEntryResult(files, calls, artifacts, e, giv)
            IN  /\ entry' = e
                /\ new' = r.new
                /\ filelist' = Append(filelist, r.entry)
                /\ artifacts' = r.artifacts
                /\ files' = r.files
                /\ calls' = r.calls
                /\ IF r.out = "exit" THEN Exit(r.code)
                   ELSE IF r.out = "raise" THEN Raise(r.exc)
                   ELSE UNCHANGED <<pc, exitcode, raised>>
    /\ UNCHANGED <<swdescription, lines, cpio, config, tempexists, outopen>>

\* what the sign tool writes for a manifest (swu_sign)
Signature(data) == data \o <<"sig">>

\* the manifest libconf.dumps writes from the rewritten tree
Manifest == <<"manifest">>

\* process(), lines 198-214: the manifest is serialised and saved in the
\* temporary directory, and signed when a sign tool is set
SaveSwdescription ==
    /\ pc = "entries"
    /\ LET swdesc_filename == <<TempDir>> \o artifacts[1].filename
           saved == WriteFile(files, swdesc_filename, Manifest)
       IN  files' = IF signtool
                    THEN WriteFile(saved, <<TempDir>> \o SwDescriptionSig,
                                   Signature(Manifest))
                    ELSE saved
    /\ pc' = "saved"
    /\ UNCHANGED <<swdescription, lines, artifacts, filelist, entry, new, cpio,
                   calls, config, exitcode, raised, tempexists, outopen>>

\* process(), lines 217-227: the manifest is encrypted when asked to;
\* encrypt's result is not looked at, and shutil.copyfile raises
\* FileNotFoundError when the encrypted file is not there
EncryptSwdescription ==
    /\ pc = "saved"
    /\ IF ~encryptswdesc
       THEN /\ pc' = "encrypted"
            /\ UNCHANGED <<artifacts, files, calls, exitcode, raised>>
       ELSE LET swdesc_filename == <<TempDir>> \o artifacts[1].filename
                swdesc_enc == swdesc_filename \o <<"enc">>
                sw == [artifacts[1] EXCEPT !.fullfilename = swdesc_filename]
                r == Encrypt(files, calls, sw, swdesc_enc, aeskey, aesiv)
            IN  /\ artifacts' = [artifacts EXCEPT ![1] = sw]
                /\ calls' = r.calls
                /\ IF r.raised # ""
                   THEN Raise(r.raised) /\ files' = r.files
                   ELSE IF swdesc_enc \notin DOMAIN r.files
                        THEN Raise("FileNotFoundError") /\ files' = r.files
                        ELSE /\ files' = WriteFile(r.files, swdesc_filename,
                                                   r.files[swdesc_enc])
                             /\ pc' = "encrypted"
                             /\ UNCHANGED <<exitcode, raised>>
    /\ UNCHANGED <<swdescription, lines, filelist, entry, new, cpio, config,
                   tempexists, outopen>>

\* SWUFile.addartifacttoswu: the file joins the container
AddArtifactToSwu(container, fullfilename) == Append(container, fullfilename)

RECURSIVE Reverse(_)
Reverse(q) == IF q = <<>> THEN <<>> ELSE Append(Reverse(Tail(q)), Head(q))

RECURSIVE AddAllForward(_, _)
AddAllForward(container, arts) ==
    IF arts = <<>>
    THEN [raised |-> "", cpio |-> container]
    ELSE IF Head(arts).fullfilename = NoneValue
         THEN [raised |-> "AttributeError", cpio |-> container]
         ELSE AddAllForward(Append(container, Head(arts).fullfilename), Tail(arts))

\* the artifacts added last registered first
AddAllReversed(container, arts) == AddAllForward(container, Reverse(arts))

\* the loop of lines 229-230 over the artifacts: the container it
\* leaves, and whether reading artifact.fullfilename raised
RECURSIVE AddAll(_, _)
AddAll(container, arts) ==
    IF arts = <<>>
    THEN [raised |-> "", cpio |-> container]
    ELSE IF Head(arts).fullfilename = NoneValue
         THEN [raised |-> "AttributeError", cpio |-> container]
         ELSE AddAll(AddArtifactToSwu(container, Head(arts).fullfilename),
                     Tail(arts))

\* process(), lines 229-230
AddArtifacts ==
    /\ pc = "encrypted"
    /\ LET r == AddAll(cpio, artifacts)
       IN  /\ cpio' = r.cpio
           /\ IF r.raised # ""
              THEN Raise(r.raised)
              ELSE pc' = "processed" /\ UNCHANGED <<exitcode, raised>>
    /\ UNCHANGED <<swdescription, lines, files, artifacts, filelist, entry, new,
                   calls, config, tempexists, outopen>>

\* SWUGenerator.close, which main calls when process() has returned
Close ==
    /\ pc = "processed"
    /\ tempexists' = FALSE
    /\ outopen' = FALSE
    /\ pc' = "closed"
    /\ exitcode' = 0
    /\ UNCHANGED <<swdescription, lines, files, artifacts, filelist, entry, new,
                   cpio, calls, config, raised>>

\* an exit that runs no finalizer: the handle goes with the process, the
\* directory stays
ExitWithoutFinalizers ==
    /\ pc = "aborted"
    /\ outopen
    /\ outopen' = FALSE
    /\ UNCHANGED <<pc, swdescription, lines, files, artifacts, filelist, entry,
                   new, cpio, calls, config, exitcode, raised, tempexists>>

\* The interpreter shuts down after sys.exit or an uncaught exception left
\* main, which calls close() only when process() has returned: swu, main's
\* local, is dropped, the finalizer TemporaryDirectory() registered removes
\* the directory, and the file object open() returned is closed.
InterpreterExit ==
    /\ pc = "aborted"
    /\ outopen
    /\ tempexists' = FALSE
    /\ outopen' = FALSE
    /\ UNCHANGED <<pc, swdescription, lines, files, artifacts, filelist, entry,
                   new, cpio, calls, config, exitcode, raised>>

NextExpand == ReadSwdesc \/ ExpandVariables \/ ExecFunctions

SpecExpand == InitExpand /\ [][NextExpand]_vars

Next ==
    \/ ReadSwdesc
    \/ ExpandVariables
    \/ ExecFunctions
    \/ ParseSwdesc
    \/ ProcessEntry
    \/ SaveSwdescription
    \/ EncryptSwdescription
    \/ AddArtifacts
    \/ Close
    \/ InterpreterExit

Spec == Init /\ [][Next]_vars

\* ------------------------------------------ Artifact.encrypt on its own
\* Artifact.encrypt called as tests/test_artifact.py calls it: an artifact
\* of any name, and any key and IV
InitEncrypt ==
    /\ pc = "encrypt"
    /\ swdescription = <<>>
    /\ lines = <<>>
    /\ files \in {SourceFiles, SourceFiles @@ SwDescriptionFile}
    /\ artifacts = <<>>
    /\ filelist = <<>>
    /\ entry = NoEntry
    /\ \E f \in Names : new = NewArtifact(files, f)
    /\ cpio = <<>>
    /\ calls = <<>>
    /\ aeskey \in Keys
    /\ aesiv \in IVs \cup GeneratedIVs \cup {"", "badiv"}
    /\ encryptswdesc = FALSE
    /\ nocompress = FALSE
    /\ noencrypt = FALSE
    /\ noivt = FALSE
    /\ signtool = FALSE
    /\ exitcode = -1
    /\ raised = ""
    /\ tempexists = TRUE
    /\ outopen = TRUE

\* artifact.encrypt(out, key, init_vec), and what the caller gets
CallEncrypt ==
    /\ pc = "encrypt"
    /\ LET r == Encrypt(files, calls, new, <<TempDir>> \o new.filename \o <<"enc">>,
                        aeskey, aesiv)
       IN  /\ files' = r.files
           /\ calls' = r.calls
           /\ raised' = r.raised
           /\ pc' = IF r.raised # "" THEN "encrypt raised"
                    ELSE IF r.ret THEN "encrypt returned True"
                    ELSE "encrypt returned False"
    /\ UNCHANGED <<swdescription, lines, artifacts, filelist, entry, new, cpio,
                   config, exitcode, tempexists, outopen>>

NextEncrypt == CallEncrypt

SpecEncrypt == InitEncrypt /\ [][NextEncrypt]_vars

\* =============================================================== claims
DoneEntries == { i \in 1..Len(filelist) : filelist[i].done }

\* the runs of the cipher that write an archive file of the artifact f
CipherCallsFor(f) ==
    { k \in 1..Len(calls) :
        /\ calls[k].tool = "openssl"
        /\ SubSeq(calls[k].output, 1, 2) = <<TempDir>> \o f }

CompressorCallsFor(f) ==
    { k \in 1..Len(calls) :
        /\ calls[k].tool \in {"gzip", "zstd"}
        /\ SubSeq(calls[k].output, 1, 2) = <<TempDir>> \o f }

Registrations(f) == { k \in 1..Len(artifacts) : artifacts[k].filename = f }

\* process_entry has been called, with a name that was not registered and
\* that a search directory holds
HandledNewEntry ==
    /\ filelist # <<>>
    /\ ~Last(filelist).hit
    /\ GetArtifactSourcePath(files, entry.filename) # NoneValue

\* C1: whenever process_entry has returned for two entries of the same
\* original filename, that name is registered exactly once, the compressor
\* and the cipher have each run at most once for it, and the two entries
\* carry the same filename and sha256, and the same ivt when both declare
\* "encrypted".
C1_DedupInvariant ==
    \A i \in DoneEntries, j \in DoneEntries :
        (i < j /\ filelist[i].orig = filelist[j].orig) =>
            /\ Cardinality(Registrations(filelist[i].orig)) = 1
            /\ Cardinality(CipherCallsFor(filelist[i].orig)) <= 1
            /\ Cardinality(CompressorCallsFor(filelist[i].orig)) <= 1
            /\ filelist[i].filename = filelist[j].filename
            /\ filelist[i].sha256 = filelist[j].sha256
            /\ (filelist[i].encrypted /\ filelist[j].encrypted)
                  => filelist[i].ivt = filelist[j].ivt

C1_Witness ==
    /\ pc = "saved"
    /\ \E i \in DoneEntries, j \in DoneEntries :
          /\ i < j
          /\ filelist[i].orig = filelist[j].orig
          /\ filelist[i].encrypted /\ filelist[j].encrypted
          /\ filelist[j].hit
          /\ filelist[j].ivt \in GeneratedIVs
          /\ Cardinality(CipherCallsFor(filelist[i].orig)) = 1

\* an entry whose artifact was transformed: its filename is the original
\* one with suffixes
Transformed(e) ==
    /\ Len(e.filename) > Len(e.orig)
    /\ SubSeq(e.filename, 1, Len(e.orig)) = e.orig

\* C2: after process_entry returns for an entry whose artifact was
\* transformed, the entry's sha256 is the hash of the transformed file, the
\* one stored under the entry's rewritten filename.
C2_HashOfFinalBytes ==
    \A i \in DoneEntries :
        Transformed(filelist[i]) =>
            /\ (<<TempDir>> \o filelist[i].filename) \in DOMAIN files
            /\ filelist[i].sha256
                 = Sha256(files[<<TempDir>> \o filelist[i].filename])

\* what a consumer of the package does with the recorded key and iv
Decrypted(data, key, iv) ==
    IF Len(data) >= 3 /\ SubSeq(data, Len(data) - 2, Len(data)) = <<"aes", key, iv>>
    THEN SubSeq(data, 1, Len(data) - 3)
    ELSE data \o <<"garbage">>

Decompressed(cmp, data) ==
    IF data # <<>> /\ Last(data) = cmp THEN Front(data) ELSE data \o <<"garbage">>

\* C3: when process_entry has been called with a new entry that has
\* compressed = true and "encrypted", with a valid key and iv and no
\* override, it returns, the compressor has run and then the cipher on the
\* compressor's output, the entry's filename is the original one followed by
\* zlib and enc, and decrypting then decompressing the archived file gives
\* the bytes of the source file.
C3_RoundTrip ==
    ( /\ HandledNewEntry
      /\ entry.compressed = "true" /\ entry.encrypted
      /\ ~nocompress /\ ~noencrypt
      /\ aeskey = "key" /\ (noivt => aesiv = "iv") )
    => LET e == Last(filelist)
           out == <<TempDir>> \o e.filename
       IN  /\ e.done
           /\ e.filename = e.orig \o <<"zlib", "enc">>
           /\ \E g \in CompressorCallsFor(e.orig), x \in CipherCallsFor(e.orig) :
                 /\ g < x
                 /\ calls[x].input = calls[g].output
           /\ out \in DOMAIN files
           /\ Decompressed("zlib", Decrypted(files[out], aeskey, e.ivt))
                = files[GetArtifactSourcePath(files, e.orig)]

\* C4: when process_entry has been called with a new entry that has a
\* "compressed" key: without --no-compress, true and "zlib" select zlib and
\* "zstd" selects zstd, for the suffix of the archived filename and for the
\* compressor that runs, and any other value ends the build by a fatal exit
\* with no compressor run; with --no-compress no compressor runs and no
\* suffix is appended.
C4_AlgorithmSelection ==
    (HandledNewEntry /\ entry.compressed # "absent") =>
        LET f == entry.filename
            want == IF entry.compressed = "zstd" THEN "zstd" ELSE "zlib"
        IN  IF nocompress
            THEN /\ CompressorCallsFor(f) = {}
                 /\ \A k \in 1..Len(new.archived_filename) :
                       new.archived_filename[k] \notin {"zlib", "zstd"}
            ELSE IF entry.compressed \in {"true", "zlib", "zstd"}
                 THEN /\ SubSeq(new.archived_filename, 1, 2) = f \o <<want>>
                      /\ \A k \in CompressorCallsFor(f) :
                            calls[k].tool = (IF want = "zlib" THEN "gzip" ELSE "zstd")
                 ELSE /\ pc = "aborted" /\ raised = "SystemExit"
                      /\ CompressorCallsFor(f) = {}

\* C5 as claimed: whenever an entry handed to process_entry names a file
\* that no search directory holds, the build has ended at that entry with
\* exit status 22 and nothing is in the container.
C5_MissingArtifactAlways22 ==
    \A i \in 1..Len(filelist) :
        GetArtifactSourcePath(files, filelist[i].orig) = NoneValue =>
            /\ i = Len(filelist)
            /\ pc = "aborted" /\ exitcode = 22
            /\ cpio = <<>>

\* C5 as amended: whenever an entry handed to process_entry names a file
\* that is not registered yet and that no search directory holds, the build
\* has ended at that entry by sys.exit(22), and nothing is in the container.
C5_MissingNewArtifactExits22 ==
    \A i \in 1..Len(filelist) :
        ( /\ ~filelist[i].hit
          /\ GetArtifactSourcePath(files, filelist[i].orig) = NoneValue ) =>
            /\ i = Len(filelist)
            /\ ~filelist[i].done
            /\ pc = "aborted" /\ exitcode = 22 /\ raised = "SystemExit"
            /\ cpio = <<>>

C5_Witness ==
    /\ Len(filelist) = 2
    /\ filelist[1].done
    /\ filelist[2].orig = <<"c">>
    /\ pc = "aborted" /\ exitcode = 22

NoKey == aeskey \in {"None", ""}

\* C6: with no encryption key configured, once process_entry has been
\* called with a new entry that declares "encrypted" without --no-encrypt
\* the build has ended and the cipher has not run for it; with the
\* manifest's encryption asked for the build never gets past it and the
\* cipher never runs on the manifest; and the container stays empty.
C6_MissingKeyIsFatal ==
    /\ ( /\ NoKey
         /\ HandledNewEntry
         /\ entry.encrypted /\ ~noencrypt
         /\ (entry.compressed = "absent" \/ nocompress) )
       => /\ pc = "aborted"
          /\ CipherCallsFor(entry.filename) = {}
          /\ cpio = <<>>
    /\ (NoKey /\ encryptswdesc)
       => /\ pc \notin {"encrypted", "processed", "closed"}
          /\ CipherCallsFor(SwDescription) = {}
          /\ cpio = <<>>

\* the names of the manifest's own artifacts
ManifestNames == {SwDescription} \cup (IF signtool THEN {SwDescriptionSig} ELSE {})

\* the archive files of the artifacts the entries name, each once, in the
\* order of the first entry that names it
RECURSIVE FirstOccurrences(_)
FirstOccurrences(n) ==
    IF n = 0 THEN <<>>
    ELSE LET e == filelist[n]
             seen == \E m \in 1..(n - 1) : filelist[m].orig = e.orig
         IN  IF seen \/ e.orig \in ManifestNames
             THEN FirstOccurrences(n - 1)
             ELSE Append(FirstOccurrences(n - 1), <<TempDir>> \o e.filename)

ExpectedPackage ==
    << <<TempDir>> \o SwDescription >>
      \o (IF signtool THEN << <<TempDir>> \o SwDescriptionSig >> ELSE <<>>)
      \o FirstOccurrences(Len(filelist))

IsPrefix(p, q) == Len(p) <= Len(q) /\ SubSeq(q, 1, Len(p)) = p

\* C7: what the package writer has been handed is at every moment the
\* beginning of: the manifest, its signature when signing is on, then the
\* archive file of every artifact once, in the order the entries first name
\* them; and it is all of it when process() has completed.
C7_PackagingOrder ==
    /\ IsPrefix(cpio, ExpectedPackage)
    /\ pc \in {"processed", "closed"} => cpio = ExpectedPackage

C7_Witness ==
    /\ pc = "processed"
    /\ Len(filelist) = 2
    /\ filelist[1].orig = <<"b">> /\ filelist[2].orig = <<"a">>
    /\ cpio = << <<TempDir>> \o SwDescription, <<"tmp", "b", "enc">>,
                 <<"tmp", "a", "enc">> >>

\* a placeholder @@NAME@@ somewhere in the line
Placeholders(line) ==
    { <<i, j>> \in (1..Len(line)) \X (1..Len(line)) :
        /\ i + 2 <= j
        /\ j + 2 <= Len(line)
        /\ line[i] = "@" /\ line[i + 1] = "@"
        /\ AllWord(SubSeq(line, i + 2, j))
        /\ line[j + 1] = "@" /\ line[j + 2] = "@" }

HasUndefinedPlaceholder(line) ==
    \E m \in Placeholders(line) :
        SubSeq(line, m[1] + 2, m[2]) \notin DOMAIN ConfVars

\* C8: when _expand_variables has returned, there are as many lines as the
\* template has and no line has a placeholder left; and it does not return
\* for a template with a placeholder whose name is not defined.
C8_VariableExpansion ==
    /\ pc = "expanded" =>
          /\ Len(lines) = Len(swdescription)
          /\ \A k \in 1..Len(lines) : Placeholders(lines[k]) = {}
    /\ (\E k \in 1..Len(swdescription) : HasUndefinedPlaceholder(swdescription[k]))
          => pc \notin {"expanded", "functions"}

\* C9: with --no-ivt every run of the cipher is passed the run's IV, and
\* the ivt of every entry that declares "encrypted" and that process_entry
\* has returned for is the IV the cipher was passed for its artifact.
C9_IVPolicy ==
    /\ noivt => \A k \in 1..Len(calls) :
                   calls[k].tool = "openssl" => calls[k].iv = aesiv
    /\ \A i \in DoneEntries :
          filelist[i].encrypted =>
             /\ CipherCallsFor(filelist[i].orig) # {}
             /\ \A k \in CipherCallsFor(filelist[i].orig) :
                   calls[k].iv = filelist[i].ivt

C9_Witness ==
    /\ noivt
    /\ Len(filelist) = 2
    /\ filelist[1].done /\ filelist[2].done
    /\ filelist[1].orig # filelist[2].orig
    /\ filelist[1].encrypted /\ filelist[2].encrypted
    /\ filelist[1].ivt = aesiv /\ filelist[2].ivt = aesiv
    /\ Cardinality({ k \in 1..Len(calls) : calls[k].tool = "openssl" }) = 2

\* C10: Artifact.encrypt does not raise; it returns False with no cipher
\* run when the artifact has no source path, and True exactly when the
\* cipher ran and left status zero.
C10_EncryptNeverRaises ==
    pc # "encrypt" =>
        /\ pc # "encrypt raised"
        /\ new.source_path = NoneValue =>
              (pc = "encrypt returned False" /\ calls = <<>>)
        /\ pc = "encrypt returned True" <=>
              ( /\ Len(calls) = 1
                /\ CipherStatus(files, new.source_path, aeskey, aesiv) = 0 )

\* C11: once the generator is constructed, every way the build can end,
\* completion or a fatal abort, leaves the temporary directory removed and
\* the output file closed: when the build has ended and no step is left
\* to take, both are released.
BuildEnded == pc \in {"closed", "aborted"}

====
